---- MODULE Spec2Model ----
(***************************************************************************)
(* MAGSplitter: the PF block parser, the map loaders and the join/split    *)
(* pipeline of main().                                                     *)
(*                                                                         *)
(* A Python str is modelled as a sequence of one-character strings, so     *)
(* that indexing, slicing, rstrip and split are computed character by      *)
(* character.  Python indices are 0-based: s[i] is written s[i + 1].       *)
(***************************************************************************)
EXTENDS Integers, Sequences, FiniteSets, TLC

VARIABLES
    \* convert_rxn_row_list_format, called on its own
    rxn_row, row_ret, row_pc,
    \* convert_pl_input_to_rxn_df
    pl_file, pl_lines, start_idx, end_idx, temp_rxn, rxn_acc, pl_ret, pl_pc,
    \* convert_duplicate_orf_map_to_list
    dup_file, dup_ret, dup_pc,
    \* convert_contig_mag_map_to_df
    mag_file, mag_ret, mag_pc,
    \* main
    orf_contig_file, df_pf, df_duplicate_orf_map, orf_contig_map, contig_mag_map,
    df_pf_with_contig, df_pf_with_mag, df_pf_split, main_pc

rowVars == <<rxn_row, row_ret, row_pc>>
plVars == <<pl_file, pl_lines, start_idx, end_idx, temp_rxn, rxn_acc, pl_ret, pl_pc>>
dupVars == <<dup_file, dup_ret, dup_pc>>
magVars == <<mag_file, mag_ret, mag_pc>>
mainVars == <<orf_contig_file, df_pf, df_duplicate_orf_map, orf_contig_map,
              contig_mag_map, df_pf_with_contig, df_pf_with_mag, df_pf_split, main_pc>>
vars == <<rowVars, plVars, dupVars, magVars, mainVars>>

-----------------------------------------------------------------------------
(* Characters and strings *)

TAB == "\t"
NL == "\n"
SPC == " "

\* The characters str.rstrip() removes (Python whitespace).
Whitespace == {TAB, NL, SPC}

\* Bound: longest row handed to convert_rxn_row_list_format on its own.
MaxRowLen == 3
\* Bound: number of lines of a PF file.
MaxPfLines == 4

\* The value an operation has not produced (yet).
None == [kind |-> "None"]
\* An exception raised by the code: the call does not return.
Raised(exc) == [kind |-> "raise", exc |-> exc]
IsRaised(v) == v.kind = "raise"
\* A value computed without an exception.
Ok(v) == [kind |-> "ok", val |-> v]

HasTab(s) == \E i \in 1..Len(s) : s[i] = TAB

\* s.find('\t'): 0-based index of the first tab (only used on strings with one).
FirstTab(s) == CHOOSE i \in 0..(Len(s) - 1) :
                  /\ s[i + 1] = TAB
                  /\ \A j \in 0..(i - 1) : s[j + 1] # TAB

RECURSIVE rstrip(_)
rstrip(s) ==
    IF s # <<>> /\ s[Len(s)] \in Whitespace
    THEN rstrip(SubSeq(s, 1, Len(s) - 1))
    ELSE s

-----------------------------------------------------------------------------
(* convert_rxn_row_list_format *)

\* The while loop: from end_idx, the first index holding a tab; -1 stands for
\* the IndexError of rxn_row[end_idx] once end_idx runs past the last character.
RECURSIVE RowScan(_, _)
RowScan(row, e) ==
    IF e >= Len(row) THEN -1
    ELSE IF row[e + 1] = TAB THEN e
    ELSE RowScan(row, e + 1)

convert_rxn_row_list_format(row) ==
    LET e == RowScan(row, 1)
    IN IF e = -1 THEN Raised("IndexError")
       ELSE [kind |-> "list", key |-> SubSeq(row, 1, e), line |-> row]

RowChars == {TAB, "E", "C", "/"}
RowSet == UNION {[1..n -> RowChars] : n \in 0..MaxRowLen}

RowIdle == rxn_row = <<>> /\ row_ret = None /\ row_pc = "idle"
RowCall ==
    /\ row_pc = "call"
    /\ row_ret' = convert_rxn_row_list_format(rxn_row)
    /\ row_pc' = "returned"
    /\ UNCHANGED rxn_row

-----------------------------------------------------------------------------
(* convert_pl_input_to_rxn_df *)

Terminator == <<"/", "/">>
KeyEC == <<"E", "C">>
KeyMETACYC == <<"M", "E", "T", "A", "C", "Y", "C">>
KeyID == <<"I", "D">>
KeyORF_ID == <<"O", "R", "F", "_", "I", "D">>
KeyPRODUCT_TYPE_pf == <<"P", "R", "O", "D", "U", "C", "T", "-", "T", "Y", "P", "E">>
KeyPRODUCT_TYPE == <<"P", "R", "O", "D", "U", "C", "T", "_", "T", "Y", "P", "E">>
Key_ec == <<"e", "c">>
Key_metacyc == <<"m", "e", "t", "a", "c", "y", "c">>

\* Values held by a dict / DataFrame cell.
PyList(items) == [kind |-> "list", items |-> items]
PyStr(s) == [kind |-> "str", s |-> s]
NaN == [kind |-> "NaN"]

\* d[k] = v on a dict (a function from keys to values).
DictSet(d, k, v) == [x \in (DOMAIN d) \cup {k} |-> IF x = k THEN v ELSE d[x]]

\* with open(pl) as f: [line.rstrip() for line in f]; a line read from the
\* file carries its line terminator.
ReadStripped(file) == [i \in 1..Len(file) |-> rstrip(file[i] \o <<NL>>)]

\* A reader that takes the end of the input for a block's terminator.
pl_lines_get_eof_closes(lines, i) ==
    IF i < Len(lines) THEN Ok(lines[i + 1]) ELSE Ok(Terminator)

\* pl_lines[end_idx] of the inner while's test.
pl_lines_get(lines, i) ==
    IF i < Len(lines) THEN Ok(lines[i + 1]) ELSE Raised("IndexError")

\* temp_rxn = {'ec': [], 'metacyc': []}
NewTempRxn == [k \in {Key_ec, Key_metacyc} |-> PyList(<<>>)]

\* temp_rxn[field].append(line): a str has no append.
DictAppend(d, field, line) ==
    IF d[field].kind = "list"
    THEN Ok(DictSet(d, field, PyList(Append(d[field].items, line))))
    ELSE Raised("AttributeError")

\* The body of the inner while for one row: the dict after the row, or the
\* exception raised.
StoreEntry(d, row) ==
    LET entry == convert_rxn_row_list_format(row)
    IN IF IsRaised(entry) THEN entry
       ELSE IF entry.key = KeyEC THEN DictAppend(d, Key_ec, entry.line)
       ELSE IF entry.key = KeyMETACYC THEN DictAppend(d, Key_metacyc, entry.line)
       ELSE Ok(DictSet(d, entry.key, PyStr(entry.line)))

\* df.rename(columns={"ID": "ORF_ID", "PRODUCT-TYPE": "PRODUCT_TYPE"})
RenameColumn(c) ==
    IF c = KeyID THEN KeyORF_ID
    ELSE IF c = KeyPRODUCT_TYPE_pf THEN KeyPRODUCT_TYPE
    ELSE c

\* pd.DataFrame(rxn_acc).rename(...): one row per dict, one column per key met
\* in any dict, NaN where a dict lacks the key.  (No PF line of the model has
\* the key ORF_ID or PRODUCT_TYPE, so the renamed columns never collide.)
DataFrameOf(acc) ==
    LET cols == UNION {DOMAIN acc[i] : i \in 1..Len(acc)}
        Cell(i, c) == IF c \in DOMAIN acc[i] THEN acc[i][c] ELSE NaN
        Old(c) == CHOOSE o \in cols : RenameColumn(o) = c
    IN [kind |-> "DataFrame",
        rows |-> [i \in 1..Len(acc) |->
                    [c \in {RenameColumn(o) : o \in cols} |-> Cell(i, Old(c))]]]

\* The parser's state as a record, so that the same step serves the stepwise
\* actions below and the call made by main.
PlState(lines, s, e, t, acc, ret, pc) ==
    [lines |-> lines, start_idx |-> s, end_idx |-> e, temp_rxn |-> t,
     rxn_acc |-> acc, ret |-> ret, pc |-> pc]

PlStart(file) == PlState(ReadStripped(file), 0, 0, NewTempRxn, <<>>, None, "outer")

\* The outer while's test: open a new block, or build and return the frame.
PlOuterStep(st) ==
    IF st.start_idx < Len(st.lines)
    THEN [st EXCEPT !.end_idx = st.start_idx, !.temp_rxn = NewTempRxn, !.pc = "inner"]
    ELSE [st EXCEPT !.ret = DataFrameOf(st.rxn_acc), !.pc = "returned"]

\* One test of the inner while, with the body or the block's close that follows.
PlInnerStep(st) ==
    LET row == pl_lines_get(st.lines, st.end_idx)
    IN IF IsRaised(row) THEN [st EXCEPT !.ret = row, !.pc = "raised"]
       ELSE IF row.val = Terminator
       THEN [st EXCEPT !.start_idx = st.start_idx + (st.end_idx + 1 - st.start_idx),
                       !.rxn_acc = Append(st.rxn_acc, st.temp_rxn),
                       !.pc = "outer"]
       ELSE LET d == StoreEntry(st.temp_rxn, row.val)
            IN IF IsRaised(d) THEN [st EXCEPT !.ret = d, !.pc = "raised"]
               ELSE [st EXCEPT !.temp_rxn = d.val, !.end_idx = st.end_idx + 1]

PlStep(st) == IF st.pc = "outer" THEN PlOuterStep(st) ELSE PlInnerStep(st)

RECURSIVE PlRun(_)
PlRun(st) == IF st.pc \in {"returned", "raised"} THEN st ELSE PlRun(PlStep(st))

\* convert_pl_input_to_rxn_df(pl): the frame returned or the exception raised.
convert_pl_input_to_rxn_df(file) == PlRun(PlStart(file)).ret

PlCur == PlState(pl_lines, start_idx, end_idx, temp_rxn, rxn_acc, pl_ret, pl_pc)
PlBecomes(st) ==
    /\ pl_lines' = st.lines
    /\ start_idx' = st.start_idx
    /\ end_idx' = st.end_idx
    /\ temp_rxn' = st.temp_rxn
    /\ rxn_acc' = st.rxn_acc
    /\ pl_ret' = st.ret
    /\ pl_pc' = st.pc
    /\ UNCHANGED <<pl_file, rowVars, dupVars, magVars, mainVars>>

PlIdle ==
    /\ pl_file = <<>> /\ pl_lines = <<>> /\ start_idx = 0 /\ end_idx = 0
    /\ temp_rxn = NewTempRxn /\ rxn_acc = <<>> /\ pl_ret = None /\ pl_pc = "idle"

DupIdle == dup_file = <<>> /\ dup_ret = None /\ dup_pc = "idle"
MagIdle == mag_file = None /\ mag_ret = None /\ mag_pc = "idle"
MainIdle ==
    /\ orf_contig_file = <<>> /\ df_pf = None /\ df_duplicate_orf_map = None
    /\ orf_contig_map = None /\ contig_mag_map = None /\ df_pf_with_contig = None
    /\ df_pf_with_mag = None /\ df_pf_split = None /\ main_pc = "idle"

PlOpen == pl_pc = "open" /\ PlBecomes(PlStart(pl_file))
PlOuter == pl_pc = "outer" /\ PlBecomes(PlOuterStep(PlCur))
PlInner == pl_pc = "inner" /\ PlBecomes(PlInnerStep(PlCur))

L_END == Terminator
L_END_SP == <<"/", "/", SPC>>
L_EC1 == <<"E", "C", TAB, "1">>
L_EC2 == <<"E", "C", TAB, "2">>
L_MC == <<"M", "E", "T", "A", "C", "Y", "C", TAB, "m">>
L_IDa == <<"I", "D", TAB, "a">>
L_IDb == <<"I", "D", TAB, "b">>
L_ec == <<"e", "c", TAB, "z">>
L_LT == <<TAB, "q">>
L_NOTAB == <<"n">>
L_TT == <<"I", "D", TAB>>
L_BLANK == <<>>

PfLineSet == {L_END, L_END_SP, L_EC1, L_EC2, L_MC, L_IDa, L_IDb, L_ec, L_LT, L_NOTAB, L_TT,
              L_BLANK}
PfFileSet == UNION {[1..n -> PfLineSet] : n \in 0..MaxPfLines}

-----------------------------------------------------------------------------
(* convert_duplicate_orf_map_to_list *)

\* Bound: number of lines of the duplicate-ORF file.
MaxDupLines == 3

\* s.split("\t")
RECURSIVE split(_)
split(s) ==
    IF ~HasTab(s) THEN <<s>>
    ELSE <<SubSeq(s, 1, FirstTab(s))>> \o split(SubSeq(s, FirstTab(s) + 2, Len(s)))

IdPrefix == <<"I", "D", TAB>>

\* The list comprehension over the file's lines (each read with its line
\* terminator), then the loops that prepend 'ID\t' to every item.
convert_duplicate_orf_map_to_list(file) ==
    LET raw == [i \in 1..Len(file) |-> file[i] \o <<NL>>]
        kept == SelectSeq(raw, HasTab)
        orf_map == [i \in 1..Len(kept) |-> split(rstrip(kept[i]))]
    IN [rxn_idx \in 1..Len(orf_map) |->
          [orf_idx \in 1..Len(orf_map[rxn_idx]) |-> IdPrefix \o orf_map[rxn_idx][orf_idx]]]

D_ac == <<"a", TAB, "c">>
D_acd == <<"a", TAB, "c", TAB, "d">>
D_zd == <<"z", TAB, "d">>
D_cd == <<"c", TAB, "d">>
D_header == <<"x">>
D_blank == <<>>
D_a_tab == <<"a", TAB>>
D_tab == <<TAB>>
D_tab_b == <<TAB, "b">>
D_ac_sp == <<"a", TAB, "c", SPC>>

DupLineSet == {D_ac, D_acd, D_zd, D_header, D_blank, D_a_tab, D_tab, D_tab_b, D_ac_sp}
DupFileSet == UNION {[1..n -> DupLineSet] : n \in 0..MaxDupLines}

DupCall ==
    /\ dup_pc = "call"
    /\ dup_ret' = convert_duplicate_orf_map_to_list(dup_file)
    /\ dup_pc' = "returned"
    /\ UNCHANGED dup_file

-----------------------------------------------------------------------------
(* convert_contig_mag_map_to_df *)

\* Bound: number of lines of the contig-bin file.
MaxMagRows == 2

\* The contig-bin file is absent (None) or a sequence of lines, each line the
\* sequence of its tab-separated fields (a blank line has none).
\* pd.read_csv(f, sep='\t', header=None): blank lines are skipped, the first
\* line sets the column count, a longer line is a ParserError, a shorter one
\* is padded with NaN.
NotBlank(row) == row # <<>>
read_csv_headerless(file) ==
    IF file = None THEN Raised("FileNotFoundError")
    ELSE LET rows == SelectSeq(file.lines, NotBlank)
         IN IF rows = <<>> THEN Raised("EmptyDataError")
            ELSE IF \E i \in 1..Len(rows) : Len(rows[i]) > Len(rows[1])
            THEN Raised("ParserError")
            ELSE [kind |-> "DataFrame",
                  ncols |-> Len(rows[1]),
                  cells |-> [i \in 1..Len(rows) |->
                               [c \in 1..Len(rows[1]) |->
                                  IF c <= Len(rows[i]) THEN rows[i][c] ELSE "NaN"]]]

\* The loader with the two column names assigned the other way round.
convert_contig_mag_map_to_df_swapped(file) ==
    LET got == read_csv_headerless(file)
        df == IF IsRaised(got)
              THEN [kind |-> "DataFrame", ncols |-> 2, cells |-> <<>>]
              ELSE got
    IN IF df.ncols # 2 THEN Raised("ValueError")
       ELSE [kind |-> "DataFrame",
             rows |-> [i \in 1..Len(df.cells) |->
                         [BIN_ID |-> df.cells[i][1], CONTIG_ID |-> df.cells[i][2]]]]

\* try: read_csv / except: empty two-column frame; then df.columns = [two
\* names], a ValueError unless the frame has two columns; then the projection.
convert_contig_mag_map_to_df(file) ==
    LET got == read_csv_headerless(file)
        df == IF IsRaised(got)
              THEN [kind |-> "DataFrame", ncols |-> 2, cells |-> <<>>]
              ELSE got
    IN IF df.ncols # 2 THEN Raised("ValueError")
       ELSE [kind |-> "DataFrame",
             rows |-> [i \in 1..Len(df.cells) |->
                         [BIN_ID |-> df.cells[i][2], CONTIG_ID |-> df.cells[i][1]]]]

MagRowSet == {<<"c1", "B1">>, <<"c1", "B2">>, <<"c2", "B1">>, <<"c2", "B2">>,
              <<"c1">>, <<"c1", "B1", "x">>, <<>>}
MagFileSet ==
    {None} \cup {[kind |-> "file", lines |-> l] :
                    l \in UNION {[1..n -> MagRowSet] : n \in 0..MaxMagRows}}

MagCall ==
    /\ mag_pc = "call"
    /\ mag_ret' = convert_contig_mag_map_to_df(mag_file)
    /\ mag_pc' = "returned"
    /\ UNCHANGED mag_file

-----------------------------------------------------------------------------
(* convert_orf_contig_map_to_df *)

\* The ORF annotation table is modelled by its data rows, each the raw
\* '# ORF_ID' cell and the CONTIG_ID cell.  The loader prefixes the ORF
\* identifier with 'ID\t' and keeps the two columns.
convert_orf_contig_map_to_df(table) ==
    [kind |-> "DataFrame",
     rows |-> [i \in 1..Len(table) |->
                 [ORF_ID |-> IdPrefix \o table[i].orf, CONTIG_ID |-> table[i].contig]]]

-----------------------------------------------------------------------------
(* The join/split stages called by main.  Their module is not among the     *)
(* sources; they are modelled from the design's description of Stages A-D.  *)

\* The record's ORF_ID cell is the identifier id.
HasOrfId(rec, id) ==
    /\ KeyORF_ID \in DOMAIN rec
    /\ rec[KeyORF_ID].kind = "str"
    /\ rec[KeyORF_ID].s = id

\* Stage A that treats an absent canonical as an error.
RECURSIVE undo_orf_removal_rows_strict(_, _)
undo_orf_removal_rows_strict(rows, groups) ==
    IF groups = <<>> THEN [kind |-> "DataFrame", rows |-> rows]
    ELSE LET g == Head(groups)
             at == {i \in 1..Len(rows) : HasOrfId(rows[i], g[1])}
         IN IF at = {} THEN Raised("KeyError")
            ELSE LET canon == rows[CHOOSE i \in at : \A j \in at : i <= j]
                     clones == [n \in 1..(Len(g) - 1) |->
                                  DictSet(canon, KeyORF_ID, PyStr(g[n + 1]))]
                 IN undo_orf_removal_rows_strict(rows \o clones, Tail(groups))

\* Stage A, group by group: locate the record of the canonical, append one
\* clone per duplicate with ORF_ID replaced; skip a group whose canonical is
\* in no record.
RECURSIVE undo_orf_removal_rows(_, _)
undo_orf_removal_rows(rows, groups) ==
    IF groups = <<>> THEN [kind |-> "DataFrame", rows |-> rows]
    ELSE LET g == Head(groups)
             at == {i \in 1..Len(rows) : HasOrfId(rows[i], g[1])}
         IN IF at = {} THEN undo_orf_removal_rows(rows, Tail(groups))
            ELSE LET canon == rows[CHOOSE i \in at : \A j \in at : i <= j]
                     clones == [n \in 1..(Len(g) - 1) |->
                                  DictSet(canon, KeyORF_ID, PyStr(g[n + 1]))]
                 IN undo_orf_removal_rows(rows \o clones, Tail(groups))

undo_orf_removal(df, groups) == undo_orf_removal_rows(df.rows, groups)

\* Stage B: inner join on ORF_ID, in the records' order.  A joined row is
\* the record with the attached CONTIG_ID beside it.
RECURSIVE JoinContig(_, _)
JoinContig(rows, map) ==
    IF rows = <<>> THEN <<>>
    ELSE LET hits == SelectSeq(map, LAMBDA m : HasOrfId(Head(rows), m.ORF_ID))
         IN [n \in 1..Len(hits) |-> [rec |-> Head(rows), CONTIG_ID |-> hits[n].CONTIG_ID]]
            \o JoinContig(Tail(rows), map)

combine_rxn_contig_map(df, map) ==
    [kind |-> "DataFrame", rows |-> JoinContig(df.rows, map.rows)]

\* Stage C: inner join on CONTIG_ID, in the records' order.
RECURSIVE JoinMag(_, _)
JoinMag(rows, map) ==
    IF rows = <<>> THEN <<>>
    ELSE LET hits == SelectSeq(map, LAMBDA m : m.CONTIG_ID = Head(rows).CONTIG_ID)
         IN [n \in 1..Len(hits) |->
               [rec |-> Head(rows).rec, CONTIG_ID |-> Head(rows).CONTIG_ID,
                BIN_ID |-> hits[n].BIN_ID]]
            \o JoinMag(Tail(rows), map)

combine_rxn_mag_map(df, map) ==
    [kind |-> "DataFrame", rows |-> JoinMag(df.rows, map.rows)]

\* Stage D: one group per BIN_ID observed, each in the rows' order.
split_full_rxn_df_by_mag(df) ==
    [b \in {df.rows[i].BIN_ID : i \in 1..Len(df.rows)} |->
        SelectSeq(df.rows, LAMBDA r : r.BIN_ID = b)]

-----------------------------------------------------------------------------
(* main *)

\* Bound: number of blocks of the PF file read by main.
MaxMainBlocks == 2
\* Bound: number of lines of the duplicate-ORF file read by main.
MaxMainDupLines == 2

B_a == <<L_IDa, L_EC1, L_END>>
B_b == <<L_IDb, L_END>>
B_noid == <<L_EC2, L_END>>
MainBlockSet == {B_a, B_b}

RECURSIVE Concat(_)
Concat(seqs) == IF seqs = <<>> THEN <<>> ELSE Head(seqs) \o Concat(Tail(seqs))

\* PF files of whole blocks, one with a block that has no ID line, and one
\* that lacks its last terminator.
MainPfFileSet ==
    {Concat(bs) : bs \in UNION {[1..n -> MainBlockSet] : n \in 0..MaxMainBlocks}}
    \cup {B_noid \o B_a, <<L_IDa, L_EC1>>}

MainDupLineSet == {D_ac, D_acd, D_zd, D_cd}
MainDupFileSet == UNION {[1..n -> MainDupLineSet] : n \in 0..MaxMainDupLines}

OrfRows == <<[orf |-> <<"a">>, contig |-> "c1"], [orf |-> <<"b">>, contig |-> "c2"],
             [orf |-> <<"c">>, contig |-> "c1"], [orf |-> <<"c">>, contig |-> "c2"]>>
\* The annotation tables: any selection of OrfRows, in their order.
OrfTableSet ==
    {SelectSeq(OrfRows, LAMBDA r : r \in pick) :
        pick \in SUBSET {OrfRows[i] : i \in 1..Len(OrfRows)}}

MagRows == << <<"c1", "B1">>, <<"c2", "B2">>, <<"c1", "B2">> >>
\* The contig-bin files: absent, one of three columns, or any selection of
\* MagRows, in their order.
MainMagFileSet ==
    {None, [kind |-> "file", lines |-> << <<"c1", "B1", "x">> >>]}
    \cup {[kind |-> "file", lines |-> SelectSeq(MagRows, LAMBDA r : r \in pick)] :
             pick \in SUBSET {MagRows[i] : i \in 1..Len(MagRows)}}

\* df_pf = convert_pl_input_to_rxn_df(pf_file)
MainImportPf ==
    /\ main_pc = "l45"
    /\ \E f \in MainPfFileSet :
          LET got == convert_pl_input_to_rxn_df(f)
          IN /\ df_pf' = got
             /\ main_pc' = IF IsRaised(got) THEN "raised" ELSE "l46"
    /\ UNCHANGED <<orf_contig_file, df_duplicate_orf_map, orf_contig_map, contig_mag_map,
                   df_pf_with_contig, df_pf_with_mag, df_pf_split, mag_file,
                   rowVars, plVars, dupVars, mag_ret, mag_pc>>

\* df_duplicate_orf_map = convert_duplicate_orf_map_to_list(orf_map_file)
MainImportDup ==
    /\ main_pc = "l46"
    /\ \E f \in MainDupFileSet :
          df_duplicate_orf_map' = convert_duplicate_orf_map_to_list(f)
    /\ main_pc' = "l47"
    /\ UNCHANGED <<orf_contig_file, df_pf, orf_contig_map, contig_mag_map,
                   df_pf_with_contig, df_pf_with_mag, df_pf_split, mag_file,
                   rowVars, plVars, dupVars, mag_ret, mag_pc>>

\* orf_contig_map = convert_orf_contig_map_to_df(orf_contig_map_file); the
\* sample name taken from it plays no part in the partition.
MainImportOrfContig ==
    /\ main_pc = "l47"
    /\ \E t \in OrfTableSet :
          /\ orf_contig_file' = t
          /\ orf_contig_map' = convert_orf_contig_map_to_df(t)
    /\ main_pc' = "l49"
    /\ UNCHANGED <<df_pf, df_duplicate_orf_map, contig_mag_map,
                   df_pf_with_contig, df_pf_with_mag, df_pf_split, mag_file,
                   rowVars, plVars, dupVars, mag_ret, mag_pc>>

\* contig_mag_map = convert_contig_mag_map_to_df(contig_mag_map_file)
MainImportContigMag ==
    /\ main_pc = "l49"
    /\ \E f \in MainMagFileSet :
          LET got == convert_contig_mag_map_to_df(f)
          IN /\ mag_file' = f
             /\ contig_mag_map' = got
             /\ main_pc' = IF IsRaised(got) THEN "raised" ELSE "l51"
    /\ UNCHANGED <<orf_contig_file, df_pf, df_duplicate_orf_map, orf_contig_map,
                   df_pf_with_contig, df_pf_with_mag, df_pf_split,
                   rowVars, plVars, dupVars, mag_ret, mag_pc>>

\* The call whose result is dropped instead of assigned to df_pf.
MainUndoOrfRemovalDropped ==
    /\ main_pc = "l51"
    /\ main_pc' = "l53"
    /\ UNCHANGED <<orf_contig_file, df_pf, df_duplicate_orf_map, orf_contig_map,
                   contig_mag_map, df_pf_with_contig, df_pf_with_mag, df_pf_split,
                   mag_file,
                   rowVars, plVars, dupVars, mag_ret, mag_pc>>

\* df_pf = undo_orf_removal(df_pf, df_duplicate_orf_map)
MainUndoOrfRemoval ==
    /\ main_pc = "l51"
    /\ LET got == undo_orf_removal(df_pf, df_duplicate_orf_map)
       IN /\ df_pf' = got
          /\ main_pc' = IF IsRaised(got) THEN "raised" ELSE "l53"
    /\ UNCHANGED <<orf_contig_file, df_duplicate_orf_map, orf_contig_map, contig_mag_map,
                   df_pf_with_contig, df_pf_with_mag, df_pf_split, mag_file,
                   rowVars, plVars, dupVars, mag_ret, mag_pc>>

\* df_pf_with_contig = combine_rxn_contig_map(df_pf, orf_contig_map)
MainCombineContig ==
    /\ main_pc = "l53"
    /\ df_pf_with_contig' = combine_rxn_contig_map(df_pf, orf_contig_map)
    /\ main_pc' = "l54"
    /\ UNCHANGED <<orf_contig_file, df_pf, df_duplicate_orf_map, orf_contig_map,
                   contig_mag_map, df_pf_with_mag, df_pf_split, mag_file,
                   rowVars, plVars, dupVars, mag_ret, mag_pc>>

\* df_pf_with_mag = combine_rxn_mag_map(df_pf_with_contig, contig_mag_map)
MainCombineMag ==
    /\ main_pc = "l54"
    /\ df_pf_with_mag' = combine_rxn_mag_map(df_pf_with_contig, contig_mag_map)
    /\ main_pc' = "l55"
    /\ UNCHANGED <<orf_contig_file, df_pf, df_duplicate_orf_map, orf_contig_map,
                   contig_mag_map, df_pf_with_contig, df_pf_split, mag_file,
                   rowVars, plVars, dupVars, mag_ret, mag_pc>>

\* df_pf_split = split_full_rxn_df_by_mag(df_pf_with_mag); the folders are
\* then written from it.
MainSplit ==
    /\ main_pc = "l55"
    /\ df_pf_split' = split_full_rxn_df_by_mag(df_pf_with_mag)
    /\ main_pc' = "done"
    /\ UNCHANGED <<orf_contig_file, df_pf, df_duplicate_orf_map, orf_contig_map,
                   contig_mag_map, df_pf_with_contig, df_pf_with_mag, mag_file,
                   rowVars, plVars, dupVars, mag_ret, mag_pc>>

Init ==
    /\ orf_contig_file = <<>> /\ df_pf = None /\ df_duplicate_orf_map = None
    /\ orf_contig_map = None /\ contig_mag_map = None /\ df_pf_with_contig = None
    /\ df_pf_with_mag = None /\ df_pf_split = None /\ main_pc = "l45"
    /\ mag_file = None /\ mag_ret = None /\ mag_pc = "idle"
    /\ RowIdle /\ PlIdle /\ DupIdle

Next ==
    \/ MainImportPf
    \/ MainImportDup
    \/ MainImportOrfContig
    \/ MainImportContigMag
    \/ MainUndoOrfRemoval
    \/ MainCombineContig
    \/ MainCombineMag
    \/ MainSplit

Spec == Init /\ [][Next]_vars

-----------------------------------------------------------------------------
(* Stand-alone specifications of the functions *)

InitRow ==
    /\ rxn_row \in RowSet /\ row_ret = None /\ row_pc = "call"
    /\ PlIdle /\ DupIdle /\ MagIdle /\ MainIdle
NextRow == RowCall /\ UNCHANGED <<plVars, dupVars, magVars, mainVars>>
SpecRow == InitRow /\ [][NextRow]_vars

InitParse ==
    /\ pl_file \in PfFileSet /\ pl_lines = <<>> /\ start_idx = 0 /\ end_idx = 0
    /\ temp_rxn = NewTempRxn /\ rxn_acc = <<>> /\ pl_ret = None /\ pl_pc = "open"
    /\ RowIdle /\ DupIdle /\ MagIdle /\ MainIdle
NextParse == PlOpen \/ PlOuter \/ PlInner
SpecParse == InitParse /\ [][NextParse]_vars

InitDup ==
    /\ dup_file \in DupFileSet /\ dup_ret = None /\ dup_pc = "call"
    /\ RowIdle /\ PlIdle /\ MagIdle /\ MainIdle
NextDup == DupCall /\ UNCHANGED <<rowVars, plVars, magVars, mainVars>>
SpecDup == InitDup /\ [][NextDup]_vars

InitMag ==
    /\ mag_file \in MagFileSet /\ mag_ret = None /\ mag_pc = "call"
    /\ RowIdle /\ PlIdle /\ DupIdle /\ MainIdle
NextMag == MagCall /\ UNCHANGED <<rowVars, plVars, dupVars, mainVars>>
SpecMag == InitMag /\ [][NextMag]_vars

-----------------------------------------------------------------------------
(* Properties of convert_rxn_row_list_format and convert_pl_input_to_rxn_df *)

\* The substring of a line before its first tab.
KeyBeforeFirstTab(line) == SubSeq(line, 1, FirstTab(line))

\* C8: for a line with a tab the function returns (the substring before the
\* first tab, the whole line); for a line with no tab it raises.
C8_SplitsAtFirstTab ==
    row_pc = "returned" =>
        IF HasTab(rxn_row)
        THEN /\ row_ret.kind = "list"
             /\ row_ret.key = KeyBeforeFirstTab(rxn_row)
             /\ row_ret.line = rxn_row
        ELSE IsRaised(row_ret)

\* 1-based positions of the terminator lines, and the lines of the i-th block.
TermPositions(lines) == {j \in 1..Len(lines) : lines[j] = Terminator}
NthTerm(lines, i) ==
    CHOOSE t \in TermPositions(lines) :
        Cardinality({j \in TermPositions(lines) : j <= t}) = i
BlockLines(lines, i) ==
    LET from == IF i = 1 THEN 1 ELSE NthTerm(lines, i - 1) + 1
    IN SubSeq(lines, from, NthTerm(lines, i) - 1)

\* Every block closed by a terminator, every other line with a tab.
WellFormedPf(lines) ==
    /\ lines = <<>> \/ lines[Len(lines)] = Terminator
    /\ \A j \in 1..Len(lines) : lines[j] # Terminator => HasTab(lines[j])

\* The lines a record holds, as scalars or as items of its sequences.
LinesHeld(rec) ==
    UNION {IF rec[k].kind = "str" THEN {rec[k].s}
           ELSE IF rec[k].kind = "list" THEN {rec[k].items[n] : n \in 1..Len(rec[k].items)}
           ELSE {} : k \in DOMAIN rec}

\* Line j of a block is kept, or a later line of the block has its key.
KeptOrSuperseded(rec, block, j) ==
    \/ block[j] \in LinesHeld(rec)
    \/ \E n \in (j + 1)..Len(block) :
          KeyBeforeFirstTab(block[n]) = KeyBeforeFirstTab(block[j])

\* C1: on well-formed lines the parser returns one record per terminator, and
\* record i holds lines of block i only, none of them skipped.
C1_OneRecordPerBlockInOrder ==
    (pl_pc \in {"returned", "raised"} /\ WellFormedPf(pl_lines)) =>
        /\ pl_pc = "returned"
        /\ Len(pl_ret.rows) = Cardinality(TermPositions(pl_lines))
        /\ \A i \in 1..Len(pl_ret.rows) :
             LET block == BlockLines(pl_lines, i)
             IN /\ LinesHeld(pl_ret.rows[i]) \subseteq {block[j] : j \in 1..Len(block)}
                /\ \A j \in 1..Len(block) : KeptOrSuperseded(pl_ret.rows[i], block, j)

\* The lines of a block whose key is k, in source order.
RECURSIVE LinesWithKey(_, _)
LinesWithKey(block, k) ==
    IF block = <<>> THEN <<>>
    ELSE LET rest == LinesWithKey(Tail(block), k)
         IN IF HasTab(Head(block)) /\ KeyBeforeFirstTab(Head(block)) = k
            THEN <<Head(block)>> \o rest
            ELSE rest

\* C2: in every emitted record, ec lists the block's EC lines and metacyc its
\* METACYC lines in source order; any other key holds its last line.
C2_AccumulateOrLastWins ==
    \A i \in 1..Len(rxn_acc) :
        LET block == BlockLines(pl_lines, i)
            rec == rxn_acc[i]
        IN /\ rec[Key_ec] = PyList(LinesWithKey(block, KeyEC))
           /\ rec[Key_metacyc] = PyList(LinesWithKey(block, KeyMETACYC))
           /\ \A j \in 1..Len(block) :
                LET k == KeyBeforeFirstTab(block[j])
                    same == LinesWithKey(block, k)
                IN k \notin {KeyEC, KeyMETACYC} =>
                      /\ k \in DOMAIN rec
                      /\ rec[k] = PyStr(same[Len(same)])

UnterminatedPf(lines) == lines # <<>> /\ lines[Len(lines)] # Terminator

\* C3: when the last line is not the terminator, the parser never returns a
\* frame: it is still running or has raised.
C3_UnterminatedIsFatal ==
    (pl_pc # "open" /\ UnterminatedPf(pl_lines)) =>
        /\ pl_pc \in {"outer", "inner", "raised"}
        /\ pl_pc = "raised" => IsRaised(pl_ret)
        /\ pl_pc # "raised" => pl_ret = None

\* C3 witness: a block was parsed, then the lines after the last terminator
\* ran off the end of the input.
C3_Witness ==
    /\ pl_pc = "raised" /\ UnterminatedPf(pl_lines)
    /\ Len(rxn_acc) >= 1
    /\ end_idx = Len(pl_lines) /\ end_idx > start_idx
    /\ pl_ret = Raised("IndexError")

IsSequenceField(rec, k) == k \in DOMAIN rec /\ rec[k].kind = "list"

\* C9: while a block is parsed and in every emitted record, ec and metacyc
\* are sequences.
C9_EcMetacycStaySequences ==
    /\ pl_pc \in {"outer", "inner", "raised", "returned"} =>
          IsSequenceField(temp_rxn, Key_ec) /\ IsSequenceField(temp_rxn, Key_metacyc)
    /\ \A i \in 1..Len(rxn_acc) :
          IsSequenceField(rxn_acc[i], Key_ec) /\ IsSequenceField(rxn_acc[i], Key_metacyc)
    /\ pl_pc = "returned" =>
          \A i \in 1..Len(pl_ret.rows) :
             IsSequenceField(pl_ret.rows[i], Key_ec)
             /\ IsSequenceField(pl_ret.rows[i], Key_metacyc)

-----------------------------------------------------------------------------
(* Properties of the loaders *)

\* The groups the duplicate-ORF file describes: one per line with a tab, the
\* line's tab-separated fields, each behind 'ID<TAB>'.
GroupsOfFile(file) ==
    LET kept == SelectSeq(file, HasTab)
    IN [g \in 1..Len(kept) |->
          [n \in 1..Len(split(kept[g])) |-> IdPrefix \o split(kept[g])[n]]]

\* C10: one group per line with a tab, in file order, listing every field of
\* the line; so every group has a canonical element and a duplicate.
C10_OneGroupPerTabbedLine ==
    dup_pc = "returned" =>
        /\ dup_ret = GroupsOfFile(dup_file)
        /\ \A g \in 1..Len(dup_ret) : Len(dup_ret[g]) >= 2

\* The file is no headerless table of two columns.
MagUnusable(file) ==
    \/ file = None
    \/ \A i \in 1..Len(file.lines) : file.lines[i] = <<>>
    \/ \E i \in 1..Len(file.lines) : Len(file.lines[i]) \notin {0, 2}

\* C4: the contig-bin loader never raises, and returns the empty relation
\* for an absent, empty or malformed file.
C4_NeverRaises ==
    mag_pc = "returned" =>
        /\ ~IsRaised(mag_ret)
        /\ MagUnusable(mag_file) => mag_ret = [kind |-> "DataFrame", rows |-> <<>>]

-----------------------------------------------------------------------------
(* Properties of main's pipeline *)

MagLines(file) == IF file = None THEN <<>> ELSE file.lines

\* At most one contig per ORF in the annotation table, at most one bin per
\* contig in the contig-bin file.
OneContigPerOrf ==
    \A i, j \in 1..Len(orf_contig_file) :
        orf_contig_file[i].orf = orf_contig_file[j].orf => i = j
OneBinPerContig ==
    \A i, j \in 1..Len(MagLines(mag_file)) :
        MagLines(mag_file)[i][1] = MagLines(mag_file)[j][1] => i = j

\* The record's ORF maps to a contig that maps to bin b.
InBin(rec, b) ==
    \E i \in 1..Len(orf_contig_file), j \in 1..Len(MagLines(mag_file)) :
        /\ HasOrfId(rec, IdPrefix \o orf_contig_file[i].orf)
        /\ MagLines(mag_file)[j][1] = orf_contig_file[i].contig
        /\ MagLines(mag_file)[j][2] = b

BinsOfFile == {MagLines(mag_file)[j][2] : j \in 1..Len(MagLines(mag_file))}
RecordsOfBin(b) == SelectSeq(df_pf.rows, LAMBDA r : InBin(r, b))

\* C5: with maps that are functions, each partition is the subsequence, in
\* document order, of the restored document's records whose ORF maps to a
\* contig of that bin; bins without such a record have no partition.
C5_PartitionIsStableFilter ==
    (main_pc = "done" /\ OneContigPerOrf /\ OneBinPerContig) =>
        /\ DOMAIN df_pf_split = {b \in BinsOfFile : RecordsOfBin(b) # <<>>}
        /\ \A b \in DOMAIN df_pf_split :
             [n \in 1..Len(df_pf_split[b]) |-> df_pf_split[b][n].rec] = RecordsOfBin(b)

\* C5 witness: two partitions, one holding a record and its restored
\* duplicate, and a record that is in no partition.
C5_Witness ==
    /\ main_pc = "done" /\ OneContigPerOrf /\ OneBinPerContig
    /\ Cardinality(DOMAIN df_pf_split) = 2
    /\ \E b \in DOMAIN df_pf_split :
          /\ Len(df_pf_split[b]) >= 2
          /\ HasOrfId(df_pf_split[b][1].rec, IdPrefix \o <<"a">>)
          /\ HasOrfId(df_pf_split[b][2].rec, IdPrefix \o <<"c">>)
    /\ \E i \in 1..Len(df_pf.rows) : \A b \in BinsOfFile : ~InBin(df_pf.rows[i], b)

\* Record copy equals record orig in every field but ORF_ID, which is id.
IsCloneOf(copy, orig, id) ==
    /\ DOMAIN copy = DOMAIN orig
    /\ HasOrfId(copy, id)
    /\ \A k \in DOMAIN orig : k # KeyORF_ID => copy[k] = orig[k]

\* Stage A took the document from rows before to rows after: the old records
\* are a prefix of the new ones, and each duplicate of a group whose canonical
\* had a record has a clone of such a record among the appended ones.
RestoredFrom(before, after, groups) ==
    /\ Len(after) >= Len(before)
    /\ SubSeq(after, 1, Len(before)) = before
    /\ \A g \in 1..Len(groups) :
          (\E i \in 1..Len(before) : HasOrfId(before[i], groups[g][1])) =>
             \A n \in 2..Len(groups[g]) :
                \E j \in (Len(before) + 1)..Len(after), i \in 1..Len(before) :
                   /\ HasOrfId(before[i], groups[g][1])
                   /\ IsCloneOf(after[j], before[i], groups[g][n])

\* C6: Stage A leaves the document's records in place and appends, for every
\* duplicate of a group whose canonical has a record, a record equal to the
\* canonical's in every field but ORF_ID.
C6_StageAClonesCanonical ==
    [][main_pc = "l51" =>
          /\ ~IsRaised(df_pf')
          /\ RestoredFrom(df_pf.rows, df_pf'.rows, df_duplicate_orf_map)]_vars

\* C6 witness: after Stage A a record with a non-empty ec sequence is
\* followed by its clone under a duplicate's identifier.
C6_Witness ==
    /\ main_pc = "l53"
    /\ \E g \in 1..Len(df_duplicate_orf_map), i, j \in 1..Len(df_pf.rows) :
          /\ i < j
          /\ HasOrfId(df_pf.rows[i], df_duplicate_orf_map[g][1])
          /\ df_pf.rows[i][Key_ec].kind = "list"
          /\ df_pf.rows[i][Key_ec].items # <<>>
          /\ IsCloneOf(df_pf.rows[j], df_pf.rows[i], df_duplicate_orf_map[g][2])

\* Group g's canonical is the ORF_ID of no record of rows.
CanonicalAbsent(rows, g) == \A i \in 1..Len(rows) : ~HasOrfId(rows[i], g[1])

\* Every record appended by Stage A is the clone of an earlier record under a
\* duplicate of a group that has that record's ORF_ID for canonical.
AppendedAreClones(before, after, groups) ==
    \A j \in (Len(before) + 1)..Len(after) :
        \E g \in 1..Len(groups), i \in 1..(j - 1) :
            /\ HasOrfId(after[i], groups[g][1])
            /\ \E n \in 2..Len(groups[g]) : IsCloneOf(after[j], after[i], groups[g][n])

\* C7: Stage A does not abort on a group whose canonical has no record and
\* adds nothing for it; the other groups are processed and the run goes on
\* to Stage B.
C7_AbsentCanonicalSkipped ==
    [][main_pc = "l51" =>
          /\ main_pc' = "l53"
          /\ ~IsRaised(df_pf')
          /\ AppendedAreClones(df_pf.rows, df_pf'.rows, df_duplicate_orf_map)
          /\ (\A g \in 1..Len(df_duplicate_orf_map) :
                 CanonicalAbsent(df_pf.rows, df_duplicate_orf_map[g]))
             => df_pf' = df_pf
          /\ (\E g \in 1..Len(df_duplicate_orf_map) :
                 CanonicalAbsent(df_pf'.rows, df_duplicate_orf_map[g]))
             => RestoredFrom(df_pf.rows, df_pf'.rows, df_duplicate_orf_map)]_vars

\* C7 witness: the first group's canonical has no record, the second group's
\* duplicate was restored, and the run stands before Stage B.
C7_Witness ==
    /\ main_pc = "l53"
    /\ Len(df_duplicate_orf_map) = 2
    /\ CanonicalAbsent(df_pf.rows, df_duplicate_orf_map[1])
    /\ \E i, j \in 1..Len(df_pf.rows) :
          /\ i < j
          /\ HasOrfId(df_pf.rows[i], df_duplicate_orf_map[2][1])
          /\ IsCloneOf(df_pf.rows[j], df_pf.rows[i], df_duplicate_orf_map[2][2])

====
